---- MODULE Spec2Model ----
(***************************************************************************)
(* Rock-paper-scissors played by two STM32 boards over CAN.                *)
(*   Nucleo_F446RE (Initiator): sends its hand every timer period, keeps   *)
(*     the rolling score, mirrors it into the backup SRAM, answers the     *)
(*     remote frame asking for the statistics, sends the sleep message.    *)
(*   Disc_F407VG (Responder): answers a hand with the game result, asks    *)
(*     for the statistics on a debounced button, sleeps on the sleep       *)
(*     message.                                                            *)
(* Bytes are naturals 0..255, characters are their ASCII codes, the backup *)
(* SRAM is the sequence of its first 256 bytes (offset k is element k+1).  *)
(***************************************************************************)
EXTENDS Integers, Sequences, FiniteSets, TLC

VARIABLES
    \* ---- Nucleo (Initiator) ----
    n_pc,           \* position of main(), or "standby", "error" (Error_handler
                    \* inside a handler), "trap_main" (Error_handler in main)
    n_SBF,          \* PWR_FLAG_SB of the Nucleo
    n_tim,          \* TIM6 started in interrupt mode
    pc5,            \* level driven on PC5 (wakeup line to the Disc)
    nucleo_wins, disc_wins, tie_count, game_err,
    bkpsram,        \* backup SRAM, first 256 bytes
    \* ---- Disc (Responder) ----
    d_pc,           \* position of main(), or "standby" / "error" / "fault"
    d_SBF,          \* PWR_FLAG_SB of the Disc
    debounce_cnt,
    btn,            \* level of the user button on PA0
    led,            \* LED lit by manage_LED_output (0: none yet)
    \* ---- CAN bus ----
    toDisc,         \* frames sent to the Disc and not yet handled by it
    toNucleo,       \* frames sent to the Nucleo and not yet handled by it
    \* ---- inputs of the function-level specifications ----
    stage,          \* "input" until the function under study is applied
    player1, player2,
    winner,         \* Determine_Win(player1, player2)
    winner_rev,     \* Determine_Win(player2, player1)
    in_score,       \* the score handed to store_score_in_bSRAM
    \* ---- observation (history) ----
    h_sleep,        \* the score the Nucleo held when it entered Standby
    h_rounds,       \* results handled so far (bounded)
    h_streak,       \* consecutive pressed samples since the last released one
    h_fires         \* statistics requests sent during the current streak

vars == << n_pc, n_SBF, n_tim, pc5, nucleo_wins, disc_wins, tie_count, game_err,
           bkpsram, d_pc, d_SBF, debounce_cnt, btn, led, toDisc, toNucleo,
           stage, player1, player2, winner, winner_rev, in_score, h_sleep, h_rounds, h_streak, h_fires >>

nucleoVars == << n_pc, n_SBF, n_tim, pc5, nucleo_wins, disc_wins, tie_count,
                 game_err, bkpsram >>
discVars   == << d_pc, d_SBF, debounce_cnt, btn, led >>
busVars    == << toDisc, toNucleo >>
fnVars     == << stage, player1, player2, winner, winner_rev, in_score >>

Byte == 0..255

(***************************** program constants **************************)
Rock     == 0
Paper    == 1
Scissors == 2

NucleoWinsResult == 1
DiscWinsResult   == 2
TieResult        == 3
ErrorResult      == 4

ID_HAND   == 1183    \* 0x49F
ID_RESULT == 273     \* 0x111
ID_STATS  == 1587    \* 0x633
ID_SLEEP  == 1915    \* 0x77B

DebounceThreshold == 100

ChNewline == 10      \* '\n'
ChComma   == 44      \* ','
ChZero    == 48      \* '0'
ChNine    == 57      \* '9'
ChLetterA == 97      \* 'a'

Uint8Mod  == 256

(******************************* bounds ***********************************)
MaxRounds  == 2      \* results handled by the Nucleo in one behaviour
MaxQueue   == 1      \* frames waiting in one direction of the bus
MaxStreak  == 250    \* the streak counter saturates here
MaxFires   == 3      \* the count of requests in one streak saturates here
MaxArbByte == 9      \* Determine_Win is tried on 0..MaxArbByte, 254 and 255
MaxFairHands == 1    \* hands and frames on the bus in one behaviour of SpecFair
MaxSeparators == 6   \* separators in a record the backup SRAM is tried with
MaxPulseTicks == 52  \* periods of the Disc's TIM6 (1 ms) within one HAL_Delay(50)

(***************************** Win arbiter ********************************)
\* Determine_Win with the winner of rock against scissors swapped (a slip in
\* one branch of the chain).
Determine_Win_Mut(p1, p2) ==
    IF      p1 = 0 /\ p2 = 1 THEN 2
    ELSE IF p1 = 0 /\ p2 = 2 THEN 2
    ELSE IF p1 = 1 /\ p2 = 0 THEN 1
    ELSE IF p1 = 1 /\ p2 = 2 THEN 2
    ELSE IF p1 = 2 /\ p2 = 0 THEN 2
    ELSE IF p1 = 2 /\ p2 = 1 THEN 1
    ELSE IF p1 = p2          THEN 3
    ELSE 4

\* The slip "the branch for equal hands is missing".
Determine_Win_Mut3(p1, p2) ==
    IF      p1 = 0 /\ p2 = 1 THEN 2
    ELSE IF p1 = 0 /\ p2 = 2 THEN 1
    ELSE IF p1 = 1 /\ p2 = 0 THEN 1
    ELSE IF p1 = 1 /\ p2 = 2 THEN 2
    ELSE IF p1 = 2 /\ p2 = 0 THEN 2
    ELSE IF p1 = 2 /\ p2 = 1 THEN 1
    ELSE 4

\* The slip "paper against scissors goes to the first player".
Determine_Win_Mut2(p1, p2) ==
    IF      p1 = 0 /\ p2 = 1 THEN 2
    ELSE IF p1 = 0 /\ p2 = 2 THEN 1
    ELSE IF p1 = 1 /\ p2 = 0 THEN 1
    ELSE IF p1 = 1 /\ p2 = 2 THEN 1
    ELSE IF p1 = 2 /\ p2 = 0 THEN 2
    ELSE IF p1 = 2 /\ p2 = 1 THEN 1
    ELSE IF p1 = p2          THEN 3
    ELSE 4

Determine_Win(p1, p2) ==
    IF      p1 = 0 /\ p2 = 1 THEN 2
    ELSE IF p1 = 0 /\ p2 = 2 THEN 1
    ELSE IF p1 = 1 /\ p2 = 0 THEN 1
    ELSE IF p1 = 1 /\ p2 = 2 THEN 2
    ELSE IF p1 = 2 /\ p2 = 0 THEN 2
    ELSE IF p1 = 2 /\ p2 = 1 THEN 1
    ELSE IF p1 = p2          THEN 3
    ELSE 4

(************************ score in the backup SRAM *************************)
\* "%d" of a non-negative int: its decimal digits, no leading zero.
RECURSIVE Decimal(_)
Decimal(n) ==
    IF n < 10 THEN << ChZero + n >>
    ELSE Decimal(n \div 10) \o << ChZero + (n % 10) >>

LblNucleoWins == << 78, 117, 99, 108, 101, 111, 32, 87, 105, 110, 115, 58, 32 >>
LblDiscWins   == << 44, 32, 68, 105, 115, 99, 32, 87, 105, 110, 115, 58, 32 >>
LblTies       == << 44, 32, 84, 105, 101, 115, 58, 32 >>
LblGameError  == << 44, 32, 71, 97, 109, 101, 32, 69, 114, 114, 111, 114, 58, 32 >>
LblCrLf       == << 13, 10 >>

\* sprintf(write_buff, "Nucleo Wins: %d, Disc Wins: %d, Ties: %d, Game Error: %d\r\n", ...)
ScoreText(p1_wins, p2_wins, game_ties, game_errs) ==
    LblNucleoWins \o Decimal(p1_wins) \o LblDiscWins \o Decimal(p2_wins)
        \o LblTies \o Decimal(game_ties) \o LblGameError \o Decimal(game_errs)
        \o LblCrLf

\* The slip "the two win counters change places in the text".
store_score_in_bSRAM_Mut(mem, p1_wins, p2_wins, game_ties, game_errs) ==
    LET write_buff == ScoreText(p2_wins, p1_wins, game_ties, game_errs) \o << 0 >>
    IN  [k \in 1..Len(mem) |->
            IF k <= Len(write_buff) THEN write_buff[k] ELSE mem[k]]

\* The copy loop writes strlen(write_buff)+1 bytes from the base address and
\* leaves the bytes behind them as they were.
store_score_in_bSRAM(mem, p1_wins, p2_wins, game_ties, game_errs) ==
    LET write_buff == ScoreText(p1_wins, p2_wins, game_ties, game_errs) \o << 0 >>
    IN  [k \in 1..Len(mem) |->
            IF k <= Len(write_buff) THEN write_buff[k] ELSE mem[k]]

\* One turn of the length scan while(text_end != '\n' && text_length <= 255),
\* on the state [text_end, text_length]. text_length is a uint8_t, so the
\* second test never fails and the index wraps to 0 after offset 255. A state
\* whose text_end is the newline has left the loop and stays as it is.
ScanStep(mem, sc) ==
    IF sc.text_end = ChNewline THEN sc
    ELSE [text_end    |-> mem[sc.text_length + 1],
          text_length |-> (sc.text_length + 1) % Uint8Mod]

\* Turns lo..hi-1 of a loop, in order (halved to keep the evaluation shallow).
RECURSIVE ScanTurns(_, _, _, _)
ScanTurns(mem, lo, hi, sc) ==
    IF hi <= lo THEN sc
    ELSE IF hi = lo + 1 THEN ScanStep(mem, sc)
    ELSE LET mid  == (lo + hi) \div 2
             half == ScanTurns(mem, lo, mid, sc)
         IN  IF half.text_end = ChNewline THEN half
             ELSE ScanTurns(mem, mid, hi, half)

\* The value of text_length when the scan ends. After 256 turns without a
\* newline the loop is back at offset 0 over the same memory and never exits:
\* the result -1 stands for that.
TextLength(mem) ==
    LET sc == ScanTurns(mem, 0, Uint8Mod, [text_end |-> ChLetterA, text_length |-> 0])
    IN  IF sc.text_end = ChNewline THEN sc.text_length ELSE -1

\* The slip "num is not set back to 0 after a separator".
ParseStep_Mut(mem, i, st) ==
    IF st.c # ChComma
    THEN LET c == mem[i + 1]
         IN  [st EXCEPT !.c = c,
                        !.num = IF c >= ChZero /\ c <= ChNine
                                THEN (st.num * 10 + (c - ChZero)) % Uint8Mod
                                ELSE st.num]
    ELSE [c     |-> mem[i + 1],
          num   |-> st.num,
          j     |-> (st.j + 1) % Uint8Mod,
          stats |-> IF st.j <= 3
                    THEN [st.stats EXCEPT ![st.j + 1] = st.num % Uint8Mod]
                    ELSE st.stats,
          oob   |-> st.oob \/ st.j > 3]

\* One turn of the parsing loop for(i = 0; i < text_length; i++), on the state
\* [c, num, j, stats, oob]; oob records a write to stats[j] with j > 3.
\* num is a uint32_t that is read only by stats[j] = num, a conversion to
\* uint8_t: its low 8 bits decide, and 256 divides 2^32, so num is kept
\* modulo 256.
ParseStep(mem, i, st) ==
    IF st.c # ChComma
    THEN LET c == mem[i + 1]
         IN  [st EXCEPT !.c = c,
                        !.num = IF c >= ChZero /\ c <= ChNine
                                THEN (st.num * 10 + (c - ChZero)) % Uint8Mod
                                ELSE st.num]
    ELSE [c     |-> mem[i + 1],
          num   |-> 0,
          j     |-> (st.j + 1) % Uint8Mod,
          stats |-> IF st.j <= 3
                    THEN [st.stats EXCEPT ![st.j + 1] = st.num % Uint8Mod]
                    ELSE st.stats,
          oob   |-> st.oob \/ st.j > 3]

RECURSIVE ParseLoop(_, _, _, _)
ParseLoop(mem, lo, hi, st) ==
    IF hi <= lo THEN st
    ELSE IF hi = lo + 1 THEN ParseStep(mem, lo, st)
    ELSE LET mid  == (lo + hi) \div 2
             half == ParseLoop(mem, lo, mid, st)
         IN  \* the test is always true: it makes the first half's value be
             \* computed before the second half starts
             IF half.j >= 0 THEN ParseLoop(mem, mid, hi, half) ELSE half

ParseInit == [c |-> ChLetterA, num |-> 0, j |-> 0, stats |-> << 0, 0, 0, 0 >>,
              oob |-> FALSE]

\* The score load_bSRAM_score leaves in the four counters when the standby
\* flag is set and the scan ends (TextLength(mem) >= 0).
LoadedStats(mem) == ParseLoop(mem, 0, TextLength(mem), ParseInit)

BlankSram == [k \in 1..Uint8Mod |-> 0]

(******************************* frames ***********************************)
Frame(StdId, RTR, DLC, data) ==
    [StdId |-> StdId, RTR |-> RTR, DLC |-> DLC, data |-> data]

NoFrame == Frame(0, "none", 0, << >>)

\* rcvd_msg[0] after HAL_CAN_GetRxMessage: the buffer starts as {0} and the
\* driver copies DLC bytes into it.
FirstByte(f) == IF Len(f.data) >= 1 THEN f.data[1] ELSE 0

Ledger == << nucleo_wins, disc_wins, tie_count, game_err >>
ledgerVars == << nucleo_wins, disc_wins, tie_count, game_err >>

SetLedger(t) ==
    /\ nucleo_wins' = t[1]
    /\ disc_wins'   = t[2]
    /\ tie_count'   = t[3]
    /\ game_err'    = t[4]

\* The byte the CAN driver reads behind `winner` when DLC is 2: whatever lies
\* next to the parameter on the stack.
GarbageBytes == {0, 170}

\* Frames that can reach the Nucleo from the bus, whoever sent them: every
\* game result, one byte outside the results, the statistics request, and
\* frames the Nucleo does not react to (an identifier of no message, a remote
\* frame with the result identifier, a data frame with the statistics one).
FramesToNucleo ==
    { Frame(ID_RESULT, "data", 1, << r >>) : r \in 1..5 }
        \cup { Frame(ID_STATS, "remote", 4, << >>), Frame(291, "data", 1, << 7 >>),
               Frame(ID_RESULT, "remote", 1, << >>),
               Frame(ID_STATS, "data", 4, << 9, 9, 9, 9 >>) }

\* What the backup SRAM may hold when the boards are first observed: nothing
\* written yet, or the record an earlier long session left behind.
InitialStorage ==
    { BlankSram, store_score_in_bSRAM(BlankSram, 254, 255, 0, 0) }

(***************************** Nucleo (Initiator) *************************)
\* The EXTI and TIM6 interrupts are enabled from GPIO_Init / Timer6_Init on;
\* a handler runs while main() is anywhere behind them and the core is
\* neither halted nor trapped inside a handler.
N_IrqOpen == n_pc \in {"main_load", "main_wakeup", "main_pulse", "main_can",
                       "idle", "hang", "trap_main"}

\* The slip "the CAN peripheral is started before load_bSRAM_score".
N_CanStarted_Mut == n_pc \in {"main_load", "main_wakeup", "main_pulse", "main_can", "idle"}

\* HAL_CAN_AddTxMessage accepts a frame once HAL_CAN_Start has run.
N_CanStarted == n_pc = "idle"

\* main(): HAL_Init .. GPIO_Init
N_MainInit ==
    /\ n_pc = "main_start"
    /\ n_pc' = "main_load"
    /\ pc5' = 0
    /\ UNCHANGED << n_SBF, n_tim, ledgerVars, bkpsram, discVars, busVars, fnVars,
                    h_sleep, h_rounds, h_streak, h_fires >>

\* The slip "the score is loaded whether or not the standby flag is set".
load_bSRAM_score_Mut(next) ==
    IF TextLength(bkpsram) < 0
    THEN /\ n_pc' = "hang"
         /\ UNCHANGED ledgerVars
    ELSE /\ nucleo_wins' = LoadedStats(bkpsram).stats[1]
         /\ disc_wins'   = LoadedStats(bkpsram).stats[2]
         /\ tie_count'   = LoadedStats(bkpsram).stats[3]
         /\ game_err'    = LoadedStats(bkpsram).stats[4]
         /\ n_pc' = next

\* What load_bSRAM_score does to the counters and where main() goes next.
\* Writes behind stats[3] are undefined behaviour: the run either goes on
\* with the four parsed slots or the core faults.
load_bSRAM_score(next) ==
    IF ~n_SBF
    THEN /\ n_pc' = next
         /\ UNCHANGED ledgerVars
    ELSE IF TextLength(bkpsram) < 0
    THEN /\ n_pc' = "hang"
         /\ UNCHANGED ledgerVars
    ELSE LET st == LoadedStats(bkpsram)
         IN  /\ SetLedger(st.stats)
             /\ n_pc' \in (IF st.oob THEN {next, "fault"} ELSE {next})

N_MainLoad ==
    /\ n_pc = "main_load"
    /\ load_bSRAM_score("main_wakeup")
    /\ UNCHANGED << n_SBF, n_tim, pc5, bkpsram, discVars, busVars, fnVars,
                    h_sleep, h_rounds, h_streak, h_fires >>

\* The slip "PC5 is pulsed on every start".
N_MainWakeup_Mut ==
    /\ n_pc = "main_wakeup"
    /\ n_SBF' = FALSE
    /\ pc5' = 1
    /\ n_pc' = "main_pulse"
    /\ UNCHANGED << n_tim, ledgerVars, bkpsram, discVars, busVars, fnVars,
                    h_sleep, h_rounds, h_streak, h_fires >>

\* wakeup_disc(), up to HAL_Delay(50)
N_MainWakeup ==
    /\ n_pc = "main_wakeup"
    /\ IF n_SBF
       THEN /\ n_SBF' = FALSE
            /\ pc5' = 1
            /\ n_pc' = "main_pulse"
       ELSE /\ n_pc' = "main_can"
            /\ UNCHANGED << n_SBF, pc5 >>
    /\ UNCHANGED << n_tim, ledgerVars, bkpsram, discVars, busVars, fnVars,
                    h_sleep, h_rounds, h_streak, h_fires >>

\* wakeup_disc(), from the end of HAL_Delay(50) on
N_MainPulseEnd ==
    /\ n_pc = "main_pulse"
    /\ pc5' = 0
    /\ n_pc' = "main_can"
    /\ UNCHANGED << n_SBF, n_tim, ledgerVars, bkpsram, discVars, busVars, fnVars,
                    h_sleep, h_rounds, h_streak, h_fires >>

\* main(): CAN1_Init .. HAL_CAN_Start, then while(1). A call the driver
\* rejects sends main() into Error_handler, with the interrupts still enabled.
N_MainCan ==
    /\ n_pc = "main_can"
    /\ \E hal_ok \in BOOLEAN : n_pc' = IF hal_ok THEN "idle" ELSE "trap_main"
    /\ UNCHANGED << n_SBF, n_tim, pc5, ledgerVars, bkpsram, discVars, busVars,
                    fnVars, h_sleep, h_rounds, h_streak,
                    h_fires >>

\* HAL_GPIO_EXTI_Callback(GPIO_PIN_13): the user button starts TIM6
N_Button ==
    /\ N_IrqOpen
    /\ ~n_tim
    /\ n_tim' = TRUE
    /\ UNCHANGED << n_pc, n_SBF, pc5, ledgerVars, bkpsram, discVars, busVars,
                    fnVars, h_sleep, h_rounds, h_streak,
                    h_fires >>

\* The slip "the hand goes out with a length of two bytes".
HandMsg_Mut(can_msg) == Frame(ID_HAND, "data", 2, << can_msg, 0 >>)

\* CAN1_Tx of the Nucleo: the frame handed to HAL_CAN_AddTxMessage
HandMsg(can_msg) == Frame(ID_HAND, "data", 1, << can_msg >>)

\* HAL_TIM_PeriodElapsedCallback -> CAN1_Tx
N_TimerPeriod ==
    /\ N_IrqOpen
    /\ n_tim
    /\ IF N_CanStarted
       THEN /\ Len(toDisc) < MaxQueue
            /\ \E can_msg \in 0..2 :
                   toDisc' = Append(toDisc, HandMsg(can_msg))
            /\ UNCHANGED n_pc
       ELSE /\ n_pc' = "error"
            /\ UNCHANGED toDisc
    /\ UNCHANGED << n_SBF, n_tim, pc5, ledgerVars, bkpsram, discVars, toNucleo,
                    fnVars, h_sleep, h_rounds, h_streak,
                    h_fires >>

\* The slip "the sleep message goes out as a remote frame".
SleepMsg_Mut(can_msg) == Frame(ID_SLEEP, "remote", 1, << can_msg >>)

\* send_sleep_msg: the frame handed to HAL_CAN_AddTxMessage
SleepMsg(can_msg) == Frame(ID_SLEEP, "data", 1, << can_msg >>)

\* HAL_GPIO_EXTI_Callback(GPIO_PIN_4): send_sleep_msg, then Standby
N_LightLost ==
    /\ N_IrqOpen
    /\ IF N_CanStarted
       THEN /\ Len(toDisc) < MaxQueue
            /\ toDisc' = Append(toDisc, SleepMsg(0))
            /\ n_pc' = "standby"
            /\ h_sleep' = Ledger
       ELSE /\ n_pc' = "error"
            /\ UNCHANGED << toDisc, h_sleep >>
    /\ UNCHANGED << n_SBF, n_tim, pc5, ledgerVars, bkpsram, discVars, toNucleo,
                    fnVars, h_rounds, h_streak, h_fires >>

\* The switch of the receive callback: an 8-bit counter is incremented.
IncrementScore(t, result) ==
    IF result \in 1..4
    THEN [t EXCEPT ![result] = (t[result] + 1) % Uint8Mod]
    ELSE t

\* The slip "the two win counters change places in the payload".
StatsPayload_Mut(t) == << t[2], t[1], t[3], t[4] >>

\* send_game_stats: the four counters, in this order
StatsPayload(t) == << t[1], t[2], t[3], t[4] >>

\* The slip "the kind of the frame is not looked at".
IsStatsRequest_Mut(f) == f.StdId = ID_STATS

\* The test of the receive callback for the statistics request
IsStatsRequest(f) == f.StdId = ID_STATS /\ f.RTR = "remote"

\* HAL_CAN_RxFifo0MsgPendingCallback of the Nucleo
N_Rx ==
    /\ n_pc = "idle"
    /\ toNucleo # << >>
    /\ LET f == Head(toNucleo)
           b == FirstByte(f)
       IN  /\ toNucleo' = Tail(toNucleo)
           /\ IF f.StdId = ID_RESULT /\ f.RTR = "data"
              THEN \* game_result[rcvd_msg[0]-1] outside the table is undefined
                   \* behaviour: the handler goes on or faults in sprintf
                   \E goes_on \in (IF b \in 1..4 THEN {TRUE} ELSE {TRUE, FALSE}) :
                      /\ h_rounds < MaxRounds
                      /\ h_rounds' = h_rounds + 1
                      /\ UNCHANGED toDisc
                      /\ IF goes_on
                         THEN /\ SetLedger(IncrementScore(Ledger, b))
                              /\ bkpsram' = store_score_in_bSRAM(bkpsram,
                                               IncrementScore(Ledger, b)[1],
                                               IncrementScore(Ledger, b)[2],
                                               IncrementScore(Ledger, b)[3],
                                               IncrementScore(Ledger, b)[4])
                              /\ UNCHANGED n_pc
                         ELSE /\ n_pc' = "fault"
                              /\ UNCHANGED << ledgerVars, bkpsram >>
              ELSE IF IsStatsRequest(f)
              THEN /\ Len(toDisc) < MaxQueue
                   /\ toDisc' = Append(toDisc,
                                  Frame(f.StdId, "data", 4, StatsPayload(Ledger)))
                   /\ UNCHANGED << n_pc, ledgerVars, bkpsram, h_rounds >>
              ELSE UNCHANGED << n_pc, ledgerVars, bkpsram, h_rounds, toDisc >>
    /\ UNCHANGED << n_SBF, n_tim, pc5, discVars, fnVars, h_sleep,
                    h_streak, h_fires >>

\* A reset that ends Standby: main() starts over with the standby flag set.
\* The slip "TIM6 keeps running across Standby".
N_Wake_Mut ==
    /\ n_pc = "standby"
    /\ n_pc' = "main_start"
    /\ n_SBF' = TRUE
    /\ pc5' = 0
    /\ SetLedger(<< 0, 0, 0, 0 >>)
    /\ UNCHANGED << n_tim, bkpsram, discVars, busVars, fnVars, h_sleep, h_rounds, h_streak, h_fires >>

N_Wake ==
    /\ n_pc = "standby"
    /\ n_pc' = "main_start"
    /\ n_SBF' = TRUE
    /\ n_tim' = FALSE
    /\ pc5' = 0
    /\ SetLedger(<< 0, 0, 0, 0 >>)
    /\ UNCHANGED << bkpsram, discVars, busVars, fnVars, h_sleep, h_rounds, h_streak, h_fires >>

\* A reset of the running board (NRST): main() starts over, the flag and the
\* backup SRAM keep what they hold.
N_Reset ==
    /\ n_pc \notin {"standby", "main_start"}
    /\ n_pc' = "main_start"
    /\ n_tim' = FALSE
    /\ pc5' = 0
    /\ SetLedger(<< 0, 0, 0, 0 >>)
    /\ UNCHANGED << n_SBF, bkpsram, discVars, busVars, fnVars, h_sleep, h_rounds, h_streak, h_fires >>

(****************************** Disc (Responder) **************************)
\* TIM6 is started in Timer6_Init, before the CAN peripheral is.
D_IrqOpen == d_pc \in {"main_can", "idle", "trap_main"}

D_CanStarted == d_pc = "idle"

\* PA0 is the user button and is wired to PC5 of the Nucleo.
PA0 == IF btn = 1 \/ pc5 = 1 THEN 1 ELSE 0

Min(a, b) == IF a < b THEN a ELSE b

\* The slip "main() of the Disc does not call clear_sleep_flags".
D_MainInit_Mut ==
    /\ d_pc = "main_start"
    /\ d_pc' = "main_can"
    /\ UNCHANGED << nucleoVars, d_SBF, debounce_cnt, btn, led, busVars, fnVars, h_sleep, h_rounds, h_streak, h_fires >>

\* main(): HAL_Init .. RTC_CalendarConfig (clear_sleep_flags, Timer6_Init)
D_MainInit ==
    /\ d_pc = "main_start"
    /\ d_pc' = "main_can"
    /\ d_SBF' = FALSE
    /\ UNCHANGED << nucleoVars, debounce_cnt, btn, led, busVars, fnVars, h_sleep, h_rounds, h_streak, h_fires >>

\* main(): CAN1_Init .. HAL_CAN_Start, then while(1). A call the driver
\* rejects sends main() into Error_handler, with TIM6 still running.
D_MainCan ==
    /\ d_pc = "main_can"
    /\ \E hal_ok \in BOOLEAN : d_pc' = IF hal_ok THEN "idle" ELSE "trap_main"
    /\ UNCHANGED << nucleoVars, d_SBF, debounce_cnt, btn, led, busVars, fnVars,
                    h_sleep, h_rounds, h_streak, h_fires >>

\* The counting of the period callback: debounce_cnt++ on a pressed sample,
\* debounce_cnt = 0 on a released one (a uint8_t).
\* The slip "a pressed sample adds three".
DebounceCount_Mut3(cnt, btn_state) ==
    IF btn_state = 1 THEN (cnt + 3) % Uint8Mod ELSE 0

\* The slip "a released sample takes one off the count".
DebounceCount_Mut2(cnt, btn_state) ==
    IF btn_state = 1 THEN (cnt + 1) % Uint8Mod
    ELSE IF cnt > 0 THEN cnt - 1 ELSE 0

\* The slip "a released sample leaves the count as it is".
DebounceCount_Mut(cnt, btn_state) ==
    IF btn_state = 1 THEN (cnt + 1) % Uint8Mod ELSE cnt

DebounceCount(cnt, btn_state) ==
    IF btn_state = 1 THEN (cnt + 1) % Uint8Mod ELSE 0

\* The slip "the request goes out as a data frame".
StatsRequestMsg_Mut == Frame(ID_STATS, "data", 4, << 0, 0, 0, 0 >>)

\* CAN1_Tx of the Disc: a remote frame asking for 4 bytes; it carries none.
StatsRequestMsg == Frame(ID_STATS, "remote", 4, << >>)

\* HAL_TIM_PeriodElapsedCallback of the Disc, with CAN1_Tx
D_Tick ==
    /\ D_IrqOpen
    /\ LET cnt  == DebounceCount(debounce_cnt, PA0)
           fire == cnt = DebounceThreshold
       IN  /\ debounce_cnt' = IF fire THEN 0 ELSE cnt
           /\ IF fire /\ D_CanStarted
              THEN /\ Len(toNucleo) < MaxQueue
                   /\ toNucleo' = Append(toNucleo, StatsRequestMsg)
                   /\ UNCHANGED d_pc
              ELSE IF fire
              THEN /\ d_pc' = "error"
                   /\ UNCHANGED toNucleo
              ELSE UNCHANGED << d_pc, toNucleo >>
           /\ h_streak' = IF PA0 = 1 THEN Min(h_streak + 1, MaxStreak) ELSE 0
           /\ h_fires' = IF PA0 = 0 THEN 0
                         ELSE IF fire THEN Min(h_fires + 1, MaxFires)
                         ELSE h_fires
    /\ UNCHANGED << nucleoVars, d_SBF, btn, led, toDisc, fnVars, h_sleep, h_rounds >>

\* The slip "the kind of the sleep frame is not looked at".
IsSleepCommand_Mut3(f) == f.StdId = ID_SLEEP

\* The slip "the Disc looks for the sleep message under another identifier".
IsSleepCommand_Mut2(f) == f.StdId = ID_SLEEP - 1 /\ f.RTR = "data"

\* The slip "the sleep message counts only with a zero payload".
IsSleepCommand_Mut(f) == f.StdId = ID_SLEEP /\ f.RTR = "data" /\ FirstByte(f) = 0

\* The test of the last branch of the receive callback.
IsSleepCommand(f) == f.StdId = ID_SLEEP /\ f.RTR = "data"

\* The slip "the kind of the hand frame is not looked at".
IsHandMsg_Mut(f) == f.StdId = ID_HAND

\* The test of the first branch of the receive callback.
IsHandMsg(f) == f.StdId = ID_HAND /\ f.RTR = "data"

\* HAL_CAN_RxFifo0MsgPendingCallback of the Disc
D_Rx ==
    /\ d_pc = "idle"
    /\ toDisc # << >>
    /\ LET f == Head(toDisc)
           h == FirstByte(f)
       IN  /\ toDisc' = Tail(toDisc)
           /\ IF IsHandMsg(f)
              THEN \E Disc_pick \in 0..2, garbage \in GarbageBytes,
                      \* playerspick[rcvd_msg[0]] outside the table is undefined
                      \* behaviour: the handler goes on or faults in sprintf
                      goes_on \in (IF h \in 0..2 THEN {TRUE} ELSE {TRUE, FALSE}) :
                      IF goes_on
                      THEN LET w == Determine_Win(h, Disc_pick)
                           IN  /\ Len(toNucleo) < MaxQueue
                               /\ led' = w
                               /\ toNucleo' = Append(toNucleo,
                                      Frame(ID_RESULT, "data", 2, << w, garbage >>))
                               /\ UNCHANGED d_pc
                      ELSE /\ d_pc' = "fault"
                           /\ UNCHANGED << led, toNucleo >>
              ELSE IF f.StdId = ID_STATS /\ f.RTR = "data"
              THEN UNCHANGED << d_pc, led, toNucleo >>
              ELSE IF IsSleepCommand(f)
              THEN /\ d_pc' = "standby"
                   /\ UNCHANGED << led, toNucleo >>
              ELSE UNCHANGED << d_pc, led, toNucleo >>
    /\ UNCHANGED << nucleoVars, d_SBF, debounce_cnt, btn, fnVars, h_sleep, h_rounds, h_streak, h_fires >>

\* WAKEUP_PIN1 (PA0) high ends Standby: main() starts over, the standby flag
\* is set and the variables have their initial values.
D_Wake ==
    /\ d_pc = "standby"
    /\ PA0 = 1
    /\ d_pc' = "main_start"
    /\ d_SBF' = TRUE
    /\ debounce_cnt' = 0
    /\ led' = 0
    /\ h_streak' = 0
    /\ h_fires' = 0
    /\ UNCHANGED << nucleoVars, btn, busVars, fnVars, h_sleep, h_rounds >>

(******************************* environment ******************************)
D_Press ==
    /\ btn = 0
    /\ btn' = 1
    /\ UNCHANGED << nucleoVars, d_pc, d_SBF, debounce_cnt, led, busVars, fnVars,
                    h_sleep, h_rounds, h_streak, h_fires >>

D_Release ==
    /\ btn = 1
    /\ btn' = 0
    /\ UNCHANGED << nucleoVars, d_pc, d_SBF, debounce_cnt, led, busVars, fnVars,
                    h_sleep, h_rounds, h_streak, h_fires >>

\* A frame for the Nucleo arrives from the bus.
BusToNucleo ==
    /\ N_CanStarted
    /\ Len(toNucleo) < MaxQueue
    /\ \E f \in FramesToNucleo : toNucleo' = Append(toNucleo, f)
    /\ UNCHANGED << nucleoVars, discVars, toDisc, fnVars, h_sleep, h_rounds,
                    h_streak, h_fires >>

\* The oldest frame the Nucleo sent has gone out on the bus.
BusFromNucleo ==
    /\ toDisc # << >>
    /\ toDisc' = Tail(toDisc)
    /\ UNCHANGED << nucleoVars, discVars, toNucleo, fnVars, h_sleep, h_rounds,
                    h_streak, h_fires >>

\* The oldest frame the Disc sent has gone out on the bus.
BusFromDisc ==
    /\ toNucleo # << >>
    /\ toNucleo' = Tail(toNucleo)
    /\ UNCHANGED << nucleoVars, discVars, toDisc, fnVars, h_sleep, h_rounds,
                    h_streak, h_fires >>

(****************************** initial states ****************************)
FnParked ==
    /\ stage = "input"
    /\ player1 = 0
    /\ player2 = 0
    /\ winner = 0
    /\ winner_rev = 0
    /\ in_score = << 0, 0, 0, 0 >>

HistoryInit ==
    /\ h_sleep = << 0, 0, 0, 0 >>
    /\ h_rounds = 0
    /\ h_streak = 0
    /\ h_fires = 0

\* Both boards at reset, nothing on the bus.
BoardsAtReset ==
    /\ n_pc = "main_start"
    /\ n_SBF = FALSE
    /\ n_tim = FALSE
    /\ pc5 = 0
    /\ nucleo_wins = 0
    /\ disc_wins = 0
    /\ tie_count = 0
    /\ game_err = 0
    /\ d_pc = "main_start"
    /\ d_SBF = FALSE
    /\ debounce_cnt = 0
    /\ btn = 0
    /\ led = 0
    /\ toDisc = << >>
    /\ toNucleo = << >>

Init ==
    /\ BoardsAtReset
    /\ bkpsram \in InitialStorage
    /\ FnParked
    /\ HistoryInit

(************ Spec: the two boards alone on the bus (game, sleep) *********)
Next ==
    \/ N_MainInit \/ N_MainLoad \/ N_MainWakeup \/ N_MainPulseEnd \/ N_MainCan
    \/ N_Button \/ N_TimerPeriod \/ N_LightLost \/ N_Rx \/ N_Wake
    \/ D_MainInit \/ D_MainCan \/ D_Rx \/ D_Wake

Spec == Init /\ [][Next]_vars

(***** SpecInitiator: the Nucleo against any traffic on the bus, resets ****)
NextInitiator ==
    \/ N_MainInit \/ N_MainLoad \/ N_MainWakeup \/ N_MainPulseEnd \/ N_MainCan
    \/ N_Button \/ N_TimerPeriod \/ N_LightLost \/ N_Rx \/ N_Wake \/ N_Reset
    \/ BusToNucleo \/ BusFromNucleo

SpecInitiator == Init /\ [][NextInitiator]_vars
(************* SpecArbiter: Determine_Win on pairs of bytes ***************)
ArbBytes == (0..MaxArbByte) \cup {254, 255}

InitArbiter ==
    /\ BoardsAtReset
    /\ bkpsram = BlankSram
    /\ HistoryInit
    /\ stage = "input"
    /\ player1 \in ArbBytes
    /\ player2 \in ArbBytes
    /\ winner = 0
    /\ winner_rev = 0
    /\ in_score = << 0, 0, 0, 0 >>

Arbitrate ==
    /\ stage = "input"
    /\ stage' = "done"
    /\ winner' = Determine_Win(player1, player2)
    /\ winner_rev' = Determine_Win(player2, player1)
    /\ UNCHANGED << nucleoVars, discVars, busVars, player1, player2, in_score,
                    h_sleep, h_rounds, h_streak, h_fires >>

SpecArbiter == InitArbiter /\ [][Arbitrate]_vars

(******** SpecCodec: store_score_in_bSRAM and load_bSRAM_score ************)
ScoreSamples == {0, 1, 9, 10, 99, 100, 255}

\* The record "<a>,<b>,<c>,<d>\n" at the base of an otherwise blank backup SRAM.
CompactRecord(t) ==
    LET text == Decimal(t[1]) \o << ChComma >> \o Decimal(t[2]) \o << ChComma >>
                  \o Decimal(t[3]) \o << ChComma >> \o Decimal(t[4])
                  \o << ChNewline >>
    IN  [k \in 1..Uint8Mod |-> IF k <= Len(text) THEN text[k] ELSE 0]

\* The Nucleo restarts with the standby flag set and main() is about to call
\* load_bSRAM_score; the backup SRAM is blank or holds the compact record.
InitCodec ==
    /\ n_pc = "main_load"
    /\ n_SBF = TRUE
    /\ n_tim = FALSE
    /\ pc5 = 0
    /\ nucleo_wins = 0
    /\ disc_wins = 0
    /\ tie_count = 0
    /\ game_err = 0
    /\ d_pc = "main_start"
    /\ d_SBF = FALSE
    /\ debounce_cnt = 0
    /\ btn = 0
    /\ led = 0
    /\ toDisc = << >>
    /\ toNucleo = << >>
    /\ HistoryInit
    /\ stage = "input"
    /\ player1 = 0
    /\ player2 = 0
    /\ winner = 0
    /\ winner_rev = 0
    /\ in_score \in ScoreSamples \X ScoreSamples \X ScoreSamples \X ScoreSamples
    /\ bkpsram \in {BlankSram, CompactRecord(in_score)}

CodecStore ==
    /\ stage = "input"
    /\ stage' = "stored"
    /\ bkpsram' = store_score_in_bSRAM(bkpsram, in_score[1], in_score[2],
                                       in_score[3], in_score[4])
    /\ UNCHANGED << n_pc, n_SBF, n_tim, pc5, ledgerVars, discVars, busVars,
                    player1, player2, winner, winner_rev, in_score,
                    h_sleep, h_rounds, h_streak, h_fires >>

CodecLoad ==
    /\ stage \in {"input", "stored"}
    /\ stage' = IF stage = "stored" THEN "loaded" ELSE "loaded_as_found"
    /\ load_bSRAM_score("main_wakeup")
    /\ UNCHANGED << n_SBF, n_tim, pc5, bkpsram, discVars, busVars,
                    player1, player2, winner, winner_rev, in_score,
                    h_sleep, h_rounds, h_streak, h_fires >>

SpecCodec == InitCodec /\ [][CodecStore \/ CodecLoad]_vars

(*********** SpecSampler: the Disc's button sampler and its request *******)
\* A reset of the running Disc: main() starts over.
D_Reset ==
    /\ d_pc \notin {"standby", "main_start"}
    /\ d_pc' = "main_start"
    /\ debounce_cnt' = 0
    /\ led' = 0
    /\ h_streak' = 0
    /\ h_fires' = 0
    /\ UNCHANGED << nucleoVars, d_SBF, btn, busVars, fnVars, h_sleep, h_rounds >>

NextSampler ==
    \/ D_MainInit \/ D_MainCan \/ D_Tick \/ D_Press \/ D_Release \/ D_Reset
    \/ BusFromDisc

InitSampler ==
    /\ BoardsAtReset
    /\ bkpsram = BlankSram
    /\ FnParked
    /\ HistoryInit

SpecSampler == InitSampler /\ [][NextSampler]_vars

(********* SpecBoot: the start-up of both boards, with restarts ***********)
\* The first 256 bytes of the backup SRAM hold no newline.
NoNewlineSram == [k \in 1..Uint8Mod |-> 65]

\* The only newline is the last of the 256 bytes.
LateNewlineSram == [k \in 1..Uint8Mod |-> IF k = Uint8Mod THEN ChNewline ELSE 65]

\* What the backup SRAM can hold at a start: nothing, a record written by
\* store_score_in_bSRAM, or bytes that are no record (its content after a
\* loss of the backup supply is not defined).
BootStorage ==
    InitialStorage
        \cup { store_score_in_bSRAM(BlankSram, 3, 5, 2, 1),
               NoNewlineSram, LateNewlineSram }

\* Both boards are at the start of main(), or the Disc still sleeps; the
\* standby flag of a board is set when a wake-up brought it there.
InitBoot ==
    /\ n_pc = "main_start"
    /\ n_SBF \in BOOLEAN
    /\ n_tim = FALSE
    /\ pc5 = 0
    /\ nucleo_wins = 0
    /\ disc_wins = 0
    /\ tie_count = 0
    /\ game_err = 0
    /\ bkpsram \in BootStorage
    /\ d_pc \in {"main_start", "standby"}
    /\ d_SBF \in (IF d_pc = "main_start" THEN BOOLEAN ELSE {FALSE})
    /\ debounce_cnt = 0
    /\ btn = 0
    /\ led = 0
    /\ toDisc = << >>
    /\ toNucleo = << >>
    /\ FnParked
    /\ HistoryInit

NextBoot ==
    \/ N_MainInit \/ N_MainLoad \/ N_MainWakeup \/ N_MainPulseEnd \/ N_MainCan
    \/ N_Button \/ N_TimerPeriod \/ N_LightLost \/ N_Wake \/ N_Reset
    \/ D_MainInit \/ D_MainCan \/ D_Wake
    \/ BusFromNucleo

SpecBoot == InitBoot /\ [][NextBoot]_vars

(****** SpecNucleoRx: the receive callback of the running Nucleo **********)
\* Scores the Nucleo can hold while it waits in while(1).
LedgerSamples == { << 0, 0, 0, 0 >>, << 3, 5, 2, 1 >>, << 255, 254, 9, 100 >> }

\* main() of the Nucleo has reached while(1) after a start without the standby
\* flag; the backup SRAM holds what the last result frame left there, or
\* nothing when no result has been handled.
InitNucleoRx ==
    /\ n_pc = "idle"
    /\ n_SBF = FALSE
    /\ n_tim = FALSE
    /\ pc5 = 0
    /\ \E t \in LedgerSamples :
          /\ nucleo_wins = t[1]
          /\ disc_wins = t[2]
          /\ tie_count = t[3]
          /\ game_err = t[4]
    /\ bkpsram = IF Ledger = << 0, 0, 0, 0 >>
                 THEN BlankSram
                 ELSE store_score_in_bSRAM(BlankSram, nucleo_wins, disc_wins,
                                           tie_count, game_err)
    /\ d_pc = "main_start"
    /\ d_SBF = FALSE
    /\ debounce_cnt = 0
    /\ btn = 0
    /\ led = 0
    /\ toDisc = << >>
    /\ toNucleo = << >>
    /\ FnParked
    /\ HistoryInit

NextNucleoRx == N_Rx \/ BusToNucleo \/ BusFromNucleo

SpecNucleoRx == InitNucleoRx /\ [][NextNucleoRx]_vars

(****** SpecNucleoRun: the running Nucleo with all its handlers ***********)
NextNucleoRun ==
    \/ N_Rx \/ N_Button \/ N_TimerPeriod \/ N_LightLost
    \/ BusToNucleo \/ BusFromNucleo

SpecNucleoRun == InitNucleoRx /\ [][NextNucleoRun]_vars

(****** SpecResponder: the Disc against any traffic on the bus ************)
\* Frames that can reach the Disc from the bus, whoever sent them: the three
\* hands and a byte outside them, a statistics answer, sleep messages with
\* several payloads, remote frames with the sleep and the hand identifier,
\* and a frame with an identifier of no message.
FramesToDisc ==
    { Frame(ID_HAND, "data", 1, << h >>) : h \in 0..3 }
        \cup { SleepMsg(b) : b \in {0, 7, 255} }
        \cup { Frame(ID_STATS, "data", 4, << 3, 5, 2, 1 >>),
               Frame(ID_SLEEP, "remote", 1, << >>),
               Frame(ID_HAND, "remote", 1, << >>),
               Frame(291, "data", 1, << 7 >>) }

\* A frame for the Disc arrives from the bus.
BusToDisc ==
    /\ D_CanStarted
    /\ Len(toDisc) < MaxQueue
    /\ \E f \in FramesToDisc : toDisc' = Append(toDisc, f)
    /\ UNCHANGED << nucleoVars, discVars, toNucleo, fnVars, h_sleep, h_rounds,
                    h_streak, h_fires >>

NextResponder ==
    \/ D_MainInit \/ D_MainCan \/ D_Rx \/ D_Wake \/ D_Press \/ D_Release
    \/ BusToDisc \/ BusFromDisc

SpecResponder == InitSampler /\ [][NextResponder]_vars

(****** SpecForeign: both boards among the frames of other nodes **********)
\* What other nodes put on the bus, as the Nucleo sees it, and the request
\* for the statistics.
ForeignToNucleo ==
    { Frame(291, "data", 1, << 7 >>), Frame(ID_RESULT, "remote", 1, << >>),
      Frame(ID_STATS, "data", 4, << 9, 9, 9, 9 >>), Frame(ID_HAND, "data", 1, << 1 >>),
      StatsRequestMsg }

\* What other nodes put on the bus, as the Disc sees it, and the sleep
\* message.
ForeignToDisc ==
    { Frame(291, "data", 1, << 7 >>), Frame(ID_SLEEP, "remote", 1, << >>),
      Frame(ID_HAND, "remote", 1, << >>), Frame(ID_RESULT, "data", 1, << 1 >>),
      SleepMsg(0) }

BusForeignToNucleo ==
    /\ Len(toNucleo) < MaxQueue
    /\ \E f \in ForeignToNucleo : toNucleo' = Append(toNucleo, f)
    /\ UNCHANGED << nucleoVars, discVars, toDisc, fnVars, h_sleep, h_rounds,
                    h_streak, h_fires >>

BusForeignToDisc ==
    /\ D_CanStarted
    /\ Len(toDisc) < MaxQueue
    /\ \E f \in ForeignToDisc : toDisc' = Append(toDisc, f)
    /\ UNCHANGED << nucleoVars, discVars, toNucleo, fnVars, h_sleep, h_rounds,
                    h_streak, h_fires >>

NextForeign ==
    \/ N_Rx \/ D_MainInit \/ D_MainCan \/ D_Rx
    \/ BusForeignToNucleo \/ BusForeignToDisc

SpecForeign == InitNucleoRx /\ [][NextForeign]_vars

(****** SpecFair: the two boards alone, every pending step is taken *******)
\* A hand is sent while the rounds played and the frames on the bus stay
\* below MaxFairHands, so every result on the bus can still be counted.
RoundBudget == h_rounds + Len(toNucleo) + Len(toDisc) < MaxFairHands

\* A frame for the Nucleo goes over the bus while the CAN peripheral of the
\* Nucleo is not started (start-up, Standby, Error_handler): nobody reads it.
BusPastNucleo ==
    /\ ~N_CanStarted
    /\ toNucleo # << >>
    /\ toNucleo' = Tail(toNucleo)
    /\ UNCHANGED << nucleoVars, discVars, toDisc, fnVars, h_sleep, h_rounds,
                    h_streak, h_fires >>

N_MainStep ==
    N_MainInit \/ N_MainLoad \/ N_MainWakeup \/ N_MainPulseEnd \/ N_MainCan

\* The steps of main() around load_bSRAM_score
N_MainOther == N_MainInit \/ N_MainWakeup \/ N_MainPulseEnd \/ N_MainCan

D_MainStep == D_MainInit \/ D_MainCan

NextFair ==
    \/ N_MainStep \/ D_MainStep
    \/ N_Button \/ (RoundBudget /\ N_TimerPeriod) \/ N_LightLost \/ N_Rx \/ N_Wake
    \/ D_Rx \/ D_Wake
    \/ BusPastNucleo

\* main() goes on, a pending receive interrupt gets its callback, and the bus
\* carries every frame handed to it; the light, the button and the wake-up
\* come when they come.
\* N_MainLoad is enabled exactly where n_pc = "main_load" and always
\* leaves that place, so WF_vars(N_MainLoad) is written as "main() is again and
\* again not at load_bSRAM_score".
Fairness ==
    /\ WF_vars(N_MainOther)
    /\ []<>(n_pc # "main_load")
    /\ WF_vars(D_MainStep)
    /\ WF_vars(N_Rx)
    /\ WF_vars(D_Rx)
    /\ WF_vars(BusPastNucleo)

SpecFair == InitSampler /\ [][NextFair]_vars /\ Fairness

(****** SpecNvic: the handlers of the running Nucleo, step by step ********)
\* The receive callback is taken in two steps here, the switch that counts
\* and the call of store_score_in_bSRAM, so that a handler that cut in between
\* them would show. stage = "rx_counted" says that the callback is between
\* the two; stage = "input" that no handler is running.
\* HAL_NVIC_SetPriority(<irq>, 15, 0) of the four interrupts in use
PrioCanRx0 == 15
PrioTim6 == 15
PrioExti15_10 == 15
PrioExti4 == 15

\* The slip "an interrupt of equal priority cuts in".
Preempts_Mut(new_prio, running_prio) == new_prio <= running_prio

\* NVIC_PRIORITYGROUP_4: all four bits are preemption priority, and a pending
\* interrupt cuts into a running handler only with a lower number.
Preempts(new_prio, running_prio) == new_prio < running_prio

\* A handler of this priority can start: none is running, or it cuts into
\* the receive callback.
MayStart(prio) == stage = "input" \/ Preempts(prio, PrioCanRx0)

\* The frame at the head is a game result with one of the four bytes.
ResultPending ==
    /\ toNucleo # << >>
    /\ Head(toNucleo).StdId = ID_RESULT
    /\ Head(toNucleo).RTR = "data"
    /\ FirstByte(Head(toNucleo)) \in NucleoWinsResult..ErrorResult

\* HAL_CAN_RxFifo0MsgPendingCallback, result branch, up to the end of the switch
Nv_RxCount ==
    /\ n_pc = "idle"
    /\ stage = "input"
    /\ ResultPending
    /\ h_rounds < MaxRounds
    /\ h_rounds' = h_rounds + 1
    /\ toNucleo' = Tail(toNucleo)
    /\ SetLedger(IncrementScore(Ledger, FirstByte(Head(toNucleo))))
    /\ stage' = "rx_counted"
    /\ UNCHANGED << n_pc, n_SBF, n_tim, pc5, bkpsram, discVars, toDisc, player1,
                    player2, winner, winner_rev, in_score, h_sleep, h_streak,
                    h_fires >>

\* HAL_CAN_RxFifo0MsgPendingCallback, result branch: store_score_in_bSRAM
Nv_RxStore ==
    /\ n_pc = "idle"
    /\ stage = "rx_counted"
    /\ bkpsram' = store_score_in_bSRAM(bkpsram, nucleo_wins, disc_wins,
                                       tie_count, game_err)
    /\ stage' = "input"
    /\ UNCHANGED << n_pc, n_SBF, n_tim, pc5, ledgerVars, discVars, busVars,
                    player1, player2, winner, winner_rev, in_score, h_sleep,
                    h_rounds, h_streak, h_fires >>

\* The receive callback on any other frame; the interrupt that runs it does
\* not cut into itself.
Nv_RxOther == stage = "input" /\ ~ResultPending /\ N_Rx

Nv_Button == MayStart(PrioExti15_10) /\ N_Button

Nv_TimerPeriod == MayStart(PrioTim6) /\ N_TimerPeriod

Nv_LightLost == MayStart(PrioExti4) /\ N_LightLost

\* A result or a statistics request arrives from the bus.
BusRoundToNucleo ==
    /\ Len(toNucleo) < MaxQueue
    /\ \E f \in { Frame(ID_RESULT, "data", 1, << r >>) :
                      r \in NucleoWinsResult..ErrorResult } \cup { StatsRequestMsg } :
           toNucleo' = Append(toNucleo, f)
    /\ UNCHANGED << nucleoVars, discVars, toDisc, fnVars, h_sleep, h_rounds,
                    h_streak, h_fires >>

NextNvic ==
    \/ Nv_RxCount \/ Nv_RxStore \/ Nv_RxOther
    \/ Nv_Button \/ Nv_TimerPeriod \/ Nv_LightLost
    \/ BusRoundToNucleo \/ BusFromNucleo

SpecNvic == InitNucleoRx /\ [][NextNvic]_vars

(****** SpecRestart: the Nucleo from start-up to the game, with restarts **)
\* The Nucleo is at the start of main() after a power-up; the backup SRAM
\* has kept a score stored before it.
InitRestart ==
    /\ BoardsAtReset
    /\ bkpsram = store_score_in_bSRAM(BlankSram, 3, 5, 2, 1)
    /\ FnParked
    /\ HistoryInit

\* A game result arrives from the bus.
BusResultToNucleo ==
    /\ Len(toNucleo) < MaxQueue
    /\ \E r \in NucleoWinsResult..ErrorResult :
           toNucleo' = Append(toNucleo, Frame(ID_RESULT, "data", 1, << r >>))
    /\ UNCHANGED << nucleoVars, discVars, toDisc, fnVars, h_sleep, h_rounds,
                    h_streak, h_fires >>

NextRestart ==
    \/ N_MainStep
    \/ N_Button \/ N_TimerPeriod \/ N_LightLost \/ N_Rx \/ N_Wake
    \/ BusResultToNucleo \/ BusFromNucleo

SpecRestart == InitRestart /\ [][NextRestart]_vars

(****** SpecOpenBus: the running Nucleo, the Disc and other nodes *********)
\* What other nodes put on the bus, as the Nucleo sees it: the request for
\* the statistics and sleep messages of both kinds.
OpenToNucleo ==
    { StatsRequestMsg, SleepMsg(0), Frame(ID_SLEEP, "remote", 1, << >>) }

\* What other nodes put on the bus, as the Disc sees it: a hand, sleep
\* messages of both kinds and a request for the statistics.
OpenToDisc ==
    { Frame(ID_HAND, "data", 1, << 0 >>), SleepMsg(0),
      Frame(ID_SLEEP, "remote", 1, << >>), StatsRequestMsg }

BusOpenToNucleo ==
    /\ Len(toNucleo) < MaxQueue
    /\ \E f \in OpenToNucleo : toNucleo' = Append(toNucleo, f)
    /\ UNCHANGED << nucleoVars, discVars, toDisc, fnVars, h_sleep, h_rounds,
                    h_streak, h_fires >>

BusOpenToDisc ==
    /\ D_CanStarted
    /\ Len(toDisc) < MaxQueue
    /\ \E f \in OpenToDisc : toDisc' = Append(toDisc, f)
    /\ UNCHANGED << nucleoVars, discVars, toNucleo, fnVars, h_sleep, h_rounds,
                    h_streak, h_fires >>

NextOpenBus ==
    \/ N_Rx \/ N_Button \/ N_TimerPeriod \/ N_LightLost
    \/ D_MainInit \/ D_MainCan \/ D_Rx
    \/ BusOpenToNucleo \/ BusOpenToDisc

SpecOpenBus == InitNucleoRx /\ [][NextOpenBus]_vars

(****** SpecAnswers: the two receive callbacks and what they send ********)
\* Frames for the Nucleo that are no result: the request for the
\* statistics, the statistics themselves and an unknown frame.
AnswersToNucleo ==
    { StatsRequestMsg, Frame(ID_STATS, "data", 4, << 9, 9, 9, 9 >>),
      Frame(291, "data", 1, << 7 >>) }

\* Frames for the Disc that are no statistics: hands inside and outside the
\* table, a hand of the wrong kind and a result.
AnswersToDisc ==
    { Frame(ID_HAND, "data", 1, << 0 >>), Frame(ID_HAND, "data", 1, << 3 >>),
      Frame(ID_HAND, "remote", 1, << >>), Frame(ID_RESULT, "data", 1, << 1 >>) }

BusAnswersToNucleo ==
    /\ Len(toNucleo) < MaxQueue
    /\ \E f \in AnswersToNucleo : toNucleo' = Append(toNucleo, f)
    /\ UNCHANGED << nucleoVars, discVars, toDisc, fnVars, h_sleep, h_rounds,
                    h_streak, h_fires >>

BusAnswersToDisc ==
    /\ D_CanStarted
    /\ Len(toDisc) < MaxQueue
    /\ \E f \in AnswersToDisc : toDisc' = Append(toDisc, f)
    /\ UNCHANGED << nucleoVars, discVars, toNucleo, fnVars, h_sleep, h_rounds,
                    h_streak, h_fires >>

NextAnswers ==
    \/ N_Rx \/ D_MainInit \/ D_MainCan \/ D_Rx
    \/ BusAnswersToNucleo \/ BusAnswersToDisc

SpecAnswers == InitNucleoRx /\ [][NextAnswers]_vars

(****** SpecPulse: sleep and wake-up with nobody at the Disc's button *****)
\* wakeup_disc holds PC5 high for HAL_Delay(50), 50 to 51 ms; the period of
\* the Disc's TIM6 is 1 ms, so its callback samples one pulse at most
\* MaxPulseTicks times.
PulseClock == pc5 = 1 => h_streak < MaxPulseTicks

D_PulseTick == PulseClock /\ D_Tick

NextPulse ==
    \/ N_MainStep \/ N_LightLost \/ N_Wake
    \/ D_MainStep \/ D_Rx \/ D_Wake \/ D_PulseTick

SpecPulse == InitRestart /\ [][NextPulse]_vars

(****** SpecRecycle: store, load, store again, load again ****************)
\* The tuples of SpecCodec, and every value of a counter in each place.
RecycleScores ==
    (ScoreSamples \X ScoreSamples \X ScoreSamples \X ScoreSamples)
        \cup { << a, 5, 2, 1 >> : a \in Byte } \cup { << 3, a, 2, 1 >> : a \in Byte }
        \cup { << 3, 5, a, 1 >> : a \in Byte } \cup { << 3, 5, 2, a >> : a \in Byte }

\* The Nucleo restarts with the standby flag set; the backup SRAM is blank or
\* holds the longest record store_score_in_bSRAM writes.
InitRecycle ==
    /\ n_pc = "main_load"
    /\ n_SBF = TRUE
    /\ n_tim = FALSE
    /\ pc5 = 0
    /\ nucleo_wins = 0
    /\ disc_wins = 0
    /\ tie_count = 0
    /\ game_err = 0
    /\ d_pc = "main_start"
    /\ d_SBF = FALSE
    /\ debounce_cnt = 0
    /\ btn = 0
    /\ led = 0
    /\ toDisc = << >>
    /\ toNucleo = << >>
    /\ HistoryInit
    /\ stage = "input"
    /\ player1 = 0
    /\ player2 = 0
    /\ winner = 0
    /\ winner_rev = 0
    /\ in_score \in RecycleScores
    /\ bkpsram \in {BlankSram, store_score_in_bSRAM(BlankSram, 255, 255, 255, 255)}

\* store_score_in_bSRAM of the counters load_bSRAM_score has left; h_sleep
\* keeps them for the comparison.
RecycleStore ==
    /\ stage = "loaded"
    /\ n_pc = "main_wakeup"
    /\ stage' = "stored_again"
    /\ n_pc' = "main_load"
    /\ h_sleep' = Ledger
    /\ bkpsram' = store_score_in_bSRAM(bkpsram, nucleo_wins, disc_wins,
                                       tie_count, game_err)
    /\ UNCHANGED << n_SBF, n_tim, pc5, ledgerVars, discVars, busVars,
                    player1, player2, winner, winner_rev, in_score,
                    h_rounds, h_streak, h_fires >>

RecycleLoad ==
    /\ stage = "stored_again"
    /\ stage' = "loaded_again"
    /\ load_bSRAM_score("main_wakeup")
    /\ UNCHANGED << n_SBF, n_tim, pc5, bkpsram, discVars, busVars,
                    player1, player2, winner, winner_rev, in_score,
                    h_sleep, h_rounds, h_streak, h_fires >>

NextRecycle == CodecStore \/ (stage = "stored" /\ CodecLoad) \/ RecycleStore \/ RecycleLoad

SpecRecycle == InitRecycle /\ [][NextRecycle]_vars

(****** SpecParse: load_bSRAM_score over records of any number of fields **)
\* The bytes "<a>,<a>, .. ,<a>" with k separators.
RECURSIVE SeparatedFields(_, _)
SeparatedFields(k, a) ==
    IF k = 0 THEN Decimal(a)
    ELSE SeparatedFields(k - 1, a) \o << ChComma >> \o Decimal(a)

\* That text and a newline at the base of an otherwise blank backup SRAM.
SeparatorRecord(k, a) ==
    LET text == SeparatedFields(k, a) \o << ChNewline >>
    IN  [i \in 1..Uint8Mod |-> IF i <= Len(text) THEN text[i] ELSE 0]

\* The Nucleo restarts with the standby flag set and main() is about to call
\* load_bSRAM_score; the backup SRAM holds a record of 1 to MaxSeparators + 1
\* fields (after a loss of the backup supply its content is not defined).
InitParse ==
    /\ n_pc = "main_load"
    /\ n_SBF = TRUE
    /\ n_tim = FALSE
    /\ pc5 = 0
    /\ nucleo_wins = 0
    /\ disc_wins = 0
    /\ tie_count = 0
    /\ game_err = 0
    /\ d_pc = "main_start"
    /\ d_SBF = FALSE
    /\ debounce_cnt = 0
    /\ btn = 0
    /\ led = 0
    /\ toDisc = << >>
    /\ toNucleo = << >>
    /\ HistoryInit
    /\ FnParked
    /\ \E k \in 0..MaxSeparators, a \in ScoreSamples \cup 2..5 :
           bkpsram = SeparatorRecord(k, a)

SpecParse == InitParse /\ [][CodecLoad]_vars

(***************************** properties *********************************)
\* The rule of the game, stated on its own: Rock beats Scissors, Scissors
\* beats Paper, Paper beats Rock.
Beats(a, b) ==
    \/ a = Rock /\ b = Scissors
    \/ a = Scissors /\ b = Paper
    \/ a = Paper /\ b = Rock

resolve(a, b) ==
    IF a \notin {Rock, Paper, Scissors} \/ b \notin {Rock, Paper, Scissors}
    THEN ErrorResult
    ELSE IF a = b THEN TieResult
    ELSE IF Beats(a, b) THEN NucleoWinsResult
    ELSE DiscWinsResult

Hands == {Rock, Paper, Scissors}

\* C1 (as stated): when main() of the Nucleo has reloaded the score after a
\* wake from Standby, the four counters equal the ones it held when it asked
\* for Standby, whatever happened before, a fresh start without a round
\* included.
C1_LedgerSurvivesSleep ==
    (n_pc = "main_wakeup" /\ n_SBF) => Ledger = h_sleep

\* C2 (as stated): store_score_in_bSRAM of a tuple of values in 0..99 followed
\* by load_bSRAM_score with the standby flag set gives the tuple back.
C2_RoundTrip ==
    (stage = "loaded" /\ \A k \in 1..4 : in_score[k] \in 0..99)
        => (n_pc = "main_wakeup" /\ Ledger = in_score)

\* C3 (as stated): the Disc answers a hand h in 0..2 with a result frame whose
\* first byte is resolve(h, r) for a hand r in 0..2, and the Nucleo handling a
\* result frame with byte in 1..4 adds one to the counter of that result and
\* leaves the other three alone.
C3_RoundStep ==
    /\ (/\ d_pc = "idle"
        /\ toDisc # << >>
        /\ Head(toDisc).StdId = ID_HAND
        /\ Head(toDisc).RTR = "data"
        /\ FirstByte(Head(toDisc)) \in Hands
        /\ toDisc' = Tail(toDisc))
       => (/\ toNucleo' # toNucleo
           /\ Len(toNucleo') = Len(toNucleo) + 1
           /\ toNucleo'[Len(toNucleo')].StdId = ID_RESULT
           /\ toNucleo'[Len(toNucleo')].RTR = "data"
           /\ \E r \in Hands :
                 FirstByte(toNucleo'[Len(toNucleo')])
                     = resolve(FirstByte(Head(toDisc)), r))
    /\ (/\ n_pc = "idle"
        /\ toNucleo # << >>
        /\ Head(toNucleo).StdId = ID_RESULT
        /\ Head(toNucleo).RTR = "data"
        /\ FirstByte(Head(toNucleo)) \in 1..4
        /\ toNucleo' = Tail(toNucleo))
       => (\A k \in 1..4 :
              Ledger'[k] = IF k = FirstByte(Head(toNucleo))
                           THEN Ledger[k] + 1
                           ELSE Ledger[k])

C3_EndToEndRound == [][C3_RoundStep]_vars

\* C4: on hands in 0..2 Determine_Win returns 3 for equal hands, 1 when the
\* first hand beats the second and 2 when the second beats the first; never 4.
C4_ArbiterRule ==
    (stage = "done" /\ player1 \in Hands /\ player2 \in Hands)
        => /\ winner # ErrorResult
           /\ winner = (IF player1 = player2 THEN TieResult
                        ELSE IF Beats(player1, player2) THEN NucleoWinsResult
                        ELSE DiscWinsResult)

\* Rock against Scissors has been decided for the first player.
C4_Witness ==
    stage = "done" /\ player1 = Rock /\ player2 = Scissors
        /\ winner = NucleoWinsResult

\* C5: on hands in 0..2 Determine_Win(a,b) is 3 exactly when a = b, and for
\* a # b the calls (a,b) and (b,a) return 1 and 2 in some order.
C5_ArbiterSymmetry ==
    (stage = "done" /\ player1 \in Hands /\ player2 \in Hands)
        => /\ (winner = TieResult) <=> (player1 = player2)
           /\ (player1 # player2)
                 => {winner, winner_rev} = {NucleoWinsResult, DiscWinsResult}

\* Paper against Scissors and Scissors against Paper name opposite winners.
C5_Witness ==
    stage = "done" /\ player1 = Paper /\ player2 = Scissors
        /\ winner = DiscWinsResult /\ winner_rev = NucleoWinsResult

\* C6 (as stated): Determine_Win returns 4 whenever one of the two bytes is
\* outside 0..2, equal bytes included.
C6_OutOfDomainInvalid ==
    (stage = "done" /\ (player1 \notin Hands \/ player2 \notin Hands))
        => winner = ErrorResult

\* C7: when the Nucleo takes a remote frame with identifier 0x633 off the bus
\* while its counters are (w_i, w_r, t, e), it sends one data frame with that
\* identifier and the four bytes w_i, w_r, t, e in this order, and leaves the
\* counters and the backup SRAM as they are.
C7_StatsStep ==
    (/\ n_pc = "idle"
     /\ toNucleo # << >>
     /\ Head(toNucleo).StdId = ID_STATS
     /\ Head(toNucleo).RTR = "remote"
     /\ toNucleo' = Tail(toNucleo))
    => /\ toDisc' = Append(toDisc,
                       Frame(ID_STATS, "data", 4,
                             << nucleo_wins, disc_wins, tie_count, game_err >>))
       /\ UNCHANGED << nucleo_wins, disc_wins, tie_count, game_err, bkpsram >>

C8_FiresOncePerRun ==
    /\ h_fires <= 1
    /\ (h_streak >= DebounceThreshold) => (h_fires = 1)

\* C9: the Disc puts a stats request on the bus only on a timer tick that
\* completes a run of at least 100 pressed samples since the last released
\* sample or reset; a run of 99 or fewer has asked for nothing.
C9_TriggerStep ==
    /\ (Len(toNucleo') > Len(toNucleo)) => (h_streak' >= DebounceThreshold)
    /\ (h_streak' < DebounceThreshold) => (h_fires' = 0)

C9_NoEarlyTrigger == [][C9_TriggerStep]_vars

\* 99 pressed samples in a row have been counted and nothing has been sent.
C9_Witness ==
    /\ d_pc = "idle"
    /\ h_streak = DebounceThreshold - 1
    /\ debounce_cnt = DebounceThreshold - 1
    /\ h_fires = 0
    /\ toNucleo = << >>

\* C10 (as stated): with the standby flag set and the backup SRAM holding
\* "a,b,c,d\n", load_bSRAM_score leaves the counters at (a, b, c, d).
C10_LoadCompactRecord ==
    (stage = "loaded_as_found" /\ bkpsram = CompactRecord(in_score))
        => (n_pc = "main_wakeup" /\ Ledger = in_score)

\* C11: after a start of the Nucleo without the standby flag the four
\* counters are 0 when load_bSRAM_score has returned, whatever the backup SRAM
\* holds, and the length scan of the backup SRAM has not been entered (a scan
\* that cannot end is met only with the flag set).
C11_FreshStartZero ==
    /\ (n_pc = "main_wakeup" /\ ~n_SBF) => Ledger = << 0, 0, 0, 0 >>
    /\ (n_pc = "hang") => n_SBF

\* A fresh start has passed load_bSRAM_score over a stored record.
C11_Witness ==
    /\ n_pc = "main_wakeup"
    /\ ~n_SBF
    /\ bkpsram = store_score_in_bSRAM(BlankSram, 254, 255, 0, 0)
    /\ Ledger = << 0, 0, 0, 0 >>

\* C12 (as stated): with the standby flag set and a backup SRAM of zeros,
\* load_bSRAM_score returns with the counters at (0,0,0,0) and main() goes on
\* towards the CAN initialisation.
C12_BlankStorageZero ==
    (n_SBF /\ bkpsram = BlankSram
           /\ n_pc \notin {"main_start", "main_load", "error"})
        => (n_pc = "main_wakeup" /\ Ledger = << 0, 0, 0, 0 >>)

\* C13 (as stated): the length scan of load_bSRAM_score ends for every
\* content of the backup SRAM: main() is never caught in it.
C13_ScanTerminates == n_pc # "hang"

\* C16: PC5 goes high only in wakeup_disc, after load_bSRAM_score has
\* returned, with the standby flag set, and the flag is cleared with it (one
\* pulse per restart); it goes low again before the CAN initialisation, or by
\* a reset; a start without the flag goes on to the CAN initialisation with
\* PC5 low; with the flag set wakeup_disc does drive PC5 high; no step of the
\* Disc changes PC5.
C16_PulseStep ==
    /\ (pc5 = 0 /\ pc5' = 1)
          => (n_pc = "main_wakeup" /\ n_SBF /\ ~n_SBF' /\ n_pc' = "main_pulse")
    /\ (pc5 = 1 /\ pc5' = 0)
          => \/ n_pc = "main_pulse" /\ n_pc' = "main_can"
             \/ n_pc' = "main_start"
    /\ (n_pc = "main_wakeup" /\ n_pc' = "main_can")
          => (~n_SBF /\ pc5 = 0 /\ pc5' = 0)
    /\ (n_pc = "main_wakeup" /\ n_SBF
           /\ n_pc' \notin {"main_wakeup", "main_start", "error"})
          => (pc5' = 1 /\ n_pc' = "main_pulse")
    /\ (n_pc' = "main_can" /\ n_pc # "main_can") => pc5' = 0
    /\ (d_pc' # d_pc) => pc5' = pc5

C17_FlagsClearedFirst ==
    /\ n_SBF => n_pc = "main_start"
    /\ d_SBF => d_pc = "main_start"

\* C14: a light-loss interrupt on the running Nucleo puts exactly one frame
\* on the bus, the data frame 0x77B with one byte, and ends in Standby, with
\* the counters, the backup SRAM and the received frames untouched; the
\* Nucleo enters Standby in no other way.
C14_LightStep ==
    /\ (N_LightLost /\ n_pc = "idle")
          => /\ n_pc' = "standby"
             /\ toDisc' = toDisc \o << [StdId |-> ID_SLEEP, RTR |-> "data",
                                        DLC |-> 1, data |-> << 0 >>] >>
             /\ UNCHANGED << nucleo_wins, disc_wins, tie_count, game_err,
                             bkpsram, toNucleo >>
    /\ (n_pc # "standby" /\ n_pc' = "standby")
          => /\ n_pc = "idle"
             /\ Len(toDisc') = Len(toDisc) + 1
             /\ toDisc'[Len(toDisc')].StdId = ID_SLEEP
             /\ toDisc'[Len(toDisc')].RTR = "data"
             /\ toDisc'[Len(toDisc')].DLC = 1

C15_SleepStep ==
    /\ (/\ d_pc = "idle"
        /\ toDisc # << >>
        /\ Head(toDisc).StdId = ID_SLEEP
        /\ Head(toDisc).RTR = "data"
        /\ toDisc' = Tail(toDisc))
       => (d_pc' = "standby" /\ toNucleo' = toNucleo /\ led' = led)
    /\ (d_pc = "standby")
       => /\ d_pc' \in {"standby", "main_start"}
          /\ Len(toNucleo') <= Len(toNucleo)
          /\ (d_pc' = "standby")
                => UNCHANGED << debounce_cnt, led, d_SBF, toDisc >>

C15_ResponderSleeps == [][C15_SleepStep]_vars

\* The Disc sleeps after a game; nothing of its own is on the bus.
C15_Witness ==
    /\ d_pc = "standby"
    /\ led = DiscWinsResult
    /\ toNucleo = << >>
    /\ toDisc = << >>

\* C18 (as stated): a board in Error_handler stays there until a reset, sends
\* no frame, and leaves the counters, the backup SRAM and the debounce count
\* as they are; it does not enter Standby.
C18_TrapStep ==
    /\ (n_pc \in {"error", "trap_main"} /\ n_pc' # "main_start")
          => /\ n_pc' \in {"error", "trap_main"}
             /\ Len(toDisc') <= Len(toDisc)
             /\ UNCHANGED << nucleo_wins, disc_wins, tie_count, game_err, bkpsram >>
    /\ (d_pc \in {"error", "trap_main"} /\ d_pc' # "main_start")
          => /\ d_pc' \in {"error", "trap_main"}
             /\ Len(toNucleo') <= Len(toNucleo)
             /\ debounce_cnt' = debounce_cnt

C18_TrapIsFinal == [][C18_TrapStep]_vars

\* C19 (as stated): no step of the running Nucleo lowers one of the four
\* counters.
C19_CounterStep ==
    (n_pc' # "main_start")
       => /\ nucleo_wins' >= nucleo_wins
          /\ disc_wins' >= disc_wins
          /\ tie_count' >= tie_count
          /\ game_err' >= game_err

C19_CountersMonotonic == [][C19_CounterStep]_vars

\* C20: once the running Nucleo has handled a result frame, the backup SRAM
\* starts with the text of the four counters as they are now, ended by a NUL.
C20_MirrorIsCurrent ==
    (n_pc = "idle" /\ h_rounds > 0)
       => LET text == ScoreText(nucleo_wins, disc_wins, tie_count, game_err)
          IN  /\ \A k \in 1..Len(text) : bkpsram[k] = text[k]
              /\ bkpsram[Len(text) + 1] = 0

\* A counter has gone from 255 to 0 and the shorter text is in the backup SRAM.
C20_Witness ==
    /\ n_pc = "idle"
    /\ h_rounds = 1
    /\ Ledger = << 0, 254, 9, 100 >>
    /\ bkpsram[14] = ChZero
    /\ bkpsram[15] = ChComma

\* C21  A frame whose identifier and kind a board does not react to is taken
\* off the bus and nothing else happens: on the Nucleo the four counters, the
\* backup SRAM, the position in main() and the frames it has sent stay as they
\* are; on the Disc the debounce counter, the LEDs, the position in main()
\* and the frames it has sent stay as they are.
NucleoReacts(f) ==
    \/ f.StdId = ID_RESULT /\ f.RTR = "data"
    \/ f.StdId = ID_STATS /\ f.RTR = "remote"

DiscReacts(f) ==
    \/ f.StdId = ID_HAND /\ f.RTR = "data"
    \/ f.StdId = ID_STATS /\ f.RTR = "data"
    \/ f.StdId = ID_SLEEP /\ f.RTR = "data"

C21_ForeignStep ==
    /\ ( /\ n_pc = "idle"
         /\ toNucleo # << >>
         /\ ~NucleoReacts(Head(toNucleo))
         /\ toNucleo' = Tail(toNucleo) )
       => UNCHANGED << ledgerVars, bkpsram, n_pc, n_SBF, n_tim, pc5, toDisc >>
    /\ ( /\ d_pc = "idle"
         /\ toDisc # << >>
         /\ ~DiscReacts(Head(toDisc))
         /\ toDisc' = Tail(toDisc) )
       => UNCHANGED << debounce_cnt, led, d_pc, d_SBF, toNucleo >>

C21_ForeignIgnored == [][C21_ForeignStep]_vars

\* Both boards wait in while(1) with a frame of another node to take, the
\* Nucleo holds a score and the Disc has already been told to log one.
C21_Witness ==
    /\ n_pc = "idle"
    /\ d_pc = "idle"
    /\ Ledger = << 3, 5, 2, 1 >>
    /\ toNucleo # << >>
    /\ Head(toNucleo) = Frame(ID_STATS, "data", 4, << 9, 9, 9, 9 >>)
    /\ toDisc # << >>
    /\ Head(toDisc) = Frame(ID_SLEEP, "remote", 1, << >>)

\* C22  Every frame with the result identifier that the Disc has sent is a data
\* frame of exactly one byte, and the byte is one of the four results.
C22_ResultFrameShape ==
    \A k \in 1..Len(toNucleo) :
        toNucleo[k].StdId = ID_RESULT
            => /\ toNucleo[k].RTR = "data"
               /\ toNucleo[k].DLC = 1
               /\ Len(toNucleo[k].data) = 1
               /\ toNucleo[k].data[1] \in NucleoWinsResult..ErrorResult

\* C23  Every frame with the hand identifier that the Nucleo has sent is a
\* data frame of exactly one byte, and the byte is Rock, Paper or Scissors.
C23_HandFrameShape ==
    \A k \in 1..Len(toDisc) :
        toDisc[k].StdId = ID_HAND
            => /\ toDisc[k].RTR = "data"
               /\ toDisc[k].DLC = 1
               /\ Len(toDisc[k].data) = 1
               /\ toDisc[k].data[1] \in {Rock, Paper, Scissors}

\* The Nucleo has sent a hand while it holds a score.
C23_Witness ==
    /\ n_pc = "idle"
    /\ n_tim
    /\ toDisc # << >>
    /\ toDisc[Len(toDisc)].StdId = ID_HAND
    /\ toDisc[Len(toDisc)].data = << Scissors >>
    /\ Ledger # << 0, 0, 0, 0 >>

\* C24  A timer tick that brings the debounce counter of the running Disc to
\* 100 puts exactly one frame on the bus: identifier 0x633, remote, no payload
\* bytes. The callback returns with the Disc still waiting in while(1) and the
\* debounce counter at zero, so later ticks and frames are handled before any
\* answer has come; nothing else puts a frame of the Disc on the bus here.
C24_TriggerTick ==
    /\ d_pc = "idle"
    /\ PA0 = 1
    /\ debounce_cnt = DebounceThreshold - 1
    /\ debounce_cnt' = 0
    /\ h_streak' # 0

C24_RequestStep ==
    /\ C24_TriggerTick
          => /\ Len(toNucleo') = Len(toNucleo) + 1
             /\ SubSeq(toNucleo', 1, Len(toNucleo)) = toNucleo
             /\ toNucleo'[Len(toNucleo')].StdId = ID_STATS
             /\ toNucleo'[Len(toNucleo')].RTR = "remote"
             /\ toNucleo'[Len(toNucleo')].data = << >>
             /\ d_pc' = "idle"
             /\ UNCHANGED << toDisc, led >>
    /\ (Len(toNucleo') > Len(toNucleo)) => C24_TriggerTick

C25_BadHandStep ==
    ( /\ d_pc = "idle"
      /\ toDisc # << >>
      /\ Head(toDisc).StdId = ID_HAND
      /\ Head(toDisc).RTR = "data"
      /\ FirstByte(Head(toDisc)) \notin {Rock, Paper, Scissors}
      /\ toDisc' = Tail(toDisc) )
        => /\ d_pc' = "idle"
           /\ Len(toNucleo') = Len(toNucleo) + 1
           /\ toNucleo'[Len(toNucleo')].StdId = ID_RESULT
           /\ FirstByte(toNucleo'[Len(toNucleo')]) = ErrorResult

C25_BadHandIsInvalidRound == [][C25_BadHandStep]_vars

\* C26 (as stated): when the running Nucleo takes a result frame whose byte
\* is none of 1, 2, 3, 4, it stays in while(1), game_err goes up by one, the
\* other counters stay, and the backup SRAM holds the text of the new score.
C26_BadResultStep ==
    ( /\ n_pc = "idle"
      /\ toNucleo # << >>
      /\ Head(toNucleo).StdId = ID_RESULT
      /\ Head(toNucleo).RTR = "data"
      /\ FirstByte(Head(toNucleo)) \notin NucleoWinsResult..ErrorResult
      /\ toNucleo' = Tail(toNucleo) )
        => /\ n_pc' = "idle"
           /\ game_err' = (game_err + 1) % Uint8Mod
           /\ UNCHANGED << nucleo_wins, disc_wins, tie_count >>
           /\ bkpsram' = store_score_in_bSRAM(bkpsram, nucleo_wins, disc_wins,
                                              tie_count, game_err')

C26_BadResultIsCounted == [][C26_BadResultStep]_vars

\* C27  Whenever the Nucleo is in Standby after a loss of light, its sleep
\* message is on the bus and the Disc waits in while(1) with its CAN started,
\* the Disc enters Standby at some later time.
C27_SleepPending ==
    /\ n_pc = "standby"
    /\ d_pc = "idle"
    /\ \E k \in 1..Len(toDisc) : toDisc[k] = SleepMsg(0)

C27_DiscFollowsToStandby == C27_SleepPending ~> (d_pc = "standby")

\* The Nucleo is in Standby, the Disc still runs with the sleep message to
\* take and shows the result of a round.
C27_Witness ==
    /\ C27_SleepPending
    /\ h_rounds > 0
    /\ led # 0

\* C28 (as stated): once a hand of the Nucleo is on the bus, with both boards
\* waiting in while(1) and their CAN started, the Nucleo counts one more result
\* at some later time.
C28_HandOnBus ==
    /\ n_pc = "idle"
    /\ d_pc = "idle"
    /\ \E k \in 1..Len(toDisc) : toDisc[k].StdId = ID_HAND

C28_EveryHandCounted ==
    \A r \in 0..(MaxFairHands - 1) :
        (C28_HandOnBus /\ h_rounds = r) ~> (h_rounds > r)

\* C29  While the receive callback of the Nucleo is between counting a result
\* and storing the score, no other handler of the Nucleo runs: no statistics
\* answer or other frame is sent, Standby is not entered, the counters and the
\* timer flag stay, and the next step of the Nucleo is the store. So whenever
\* no handler runs after a round, or the Nucleo is in Standby, the backup SRAM
\* holds the text of the counters.
C29_HandlerStep ==
    (stage = "rx_counted")
        => /\ UNCHANGED << ledgerVars, n_pc, n_tim, h_sleep >>
           /\ Len(toDisc') <= Len(toDisc)
           /\ (bkpsram' # bkpsram \/ stage' # stage)
                 => /\ stage' = "input"
                    /\ bkpsram' = store_score_in_bSRAM(bkpsram, nucleo_wins,
                                       disc_wins, tie_count, game_err)

C29_Settled ==
    /\ (n_pc = "standby") => (stage = "input")
    /\ (stage = "input" /\ h_rounds > 0)
          => \A k \in 1..Len(ScoreText(nucleo_wins, disc_wins, tie_count, game_err)) :
                 bkpsram[k] = ScoreText(nucleo_wins, disc_wins, tie_count, game_err)[k]

C29_HandlersRunToCompletion == [](C29_Settled) /\ [][C29_HandlerStep]_vars

\* The callback has counted a result and not yet stored the score, while the
\* timer runs and a statistics request waits to be taken.
C29_Witness ==
    /\ stage = "rx_counted"
    /\ n_pc = "idle"
    /\ n_tim
    /\ toNucleo # << >>
    /\ Head(toNucleo) = StatsRequestMsg
    /\ bkpsram # store_score_in_bSRAM(bkpsram, nucleo_wins, disc_wins,
                                      tie_count, game_err)

\* C30  On the Nucleo the counters change in three ways only: a start of main()
\* zeroes them, load_bSRAM_score sets them from the backup SRAM while main() is
\* at that call with the standby flag set, and the receive callback adds one
\* for a result while main() waits in while(1). main() passes the call of
\* load_bSRAM_score before wakeup_disc, that before the CAN start, and only
\* then reaches while(1); a result is counted and a frame is sent only there.
C30_LedgerStep ==
    (Ledger' # Ledger)
        => \/ n_pc' = "main_start" /\ Ledger' = << 0, 0, 0, 0 >>
           \/ /\ n_pc = "main_load"
              /\ n_SBF
              /\ Ledger' = LoadedStats(bkpsram).stats
           \/ /\ n_pc = "idle"
              /\ n_pc' = "idle"
              /\ toNucleo # << >>
              /\ Head(toNucleo).StdId = ID_RESULT
              /\ toNucleo' = Tail(toNucleo)
              /\ Ledger' = IncrementScore(Ledger, FirstByte(Head(toNucleo)))

C30_OrderStep ==
    /\ (n_pc' = "main_wakeup" /\ n_pc # "main_wakeup") => (n_pc = "main_load")
    /\ (n_pc' = "main_pulse" /\ n_pc # "main_pulse") => (n_pc = "main_wakeup")
    /\ (n_pc' = "main_can" /\ n_pc # "main_can")
          => (n_pc \in {"main_wakeup", "main_pulse"})
    /\ (n_pc' = "idle" /\ n_pc # "idle") => (n_pc = "main_can")
    /\ (Len(toDisc') > Len(toDisc)) => (n_pc = "idle")
    /\ (h_rounds' # h_rounds) => (n_pc = "idle")

C30_LoadOnlyAtWake == [][C30_LedgerStep /\ C30_OrderStep]_vars

\* After a wake-up the Nucleo waits in while(1) with a score that no round of
\* this behaviour has produced, and has sent a hand.
C30_Witness ==
    /\ n_pc = "idle"
    /\ h_rounds = 0
    /\ Ledger = << 3, 5, 2, 0 >>
    /\ toDisc # << >>
    /\ toDisc[Len(toDisc)].StdId = ID_HAND


\* C31: in each power cycle of the Nucleo no hand is transmitted until the
\* user button has started TIM6 in that cycle; a start of main(), after a
\* power-up or a wake from Standby, leaves TIM6 stopped and the button
\* handler itself sends nothing; once started, TIM6 runs until the next start
\* of main(), and every hand is sent by the running board with TIM6 started,
\* one frame at a time.
C31_HandSent ==
    /\ Len(toDisc') > Len(toDisc)
    /\ toDisc'[Len(toDisc')].StdId = ID_HAND

C31_HandStep ==
    /\ C31_HandSent => /\ n_tim /\ n_tim'
                       /\ n_pc = "idle"
                       /\ Len(toDisc') = Len(toDisc) + 1
    /\ (n_pc' = "main_start" /\ n_pc # "main_start") => ~n_tim'
    /\ (n_tim' /\ ~n_tim) => UNCHANGED << n_pc, toDisc >>
    /\ (n_tim /\ ~n_tim') => n_pc' = "main_start"

C31_NoHandBeforeTrigger == [][C31_HandStep]_vars

\* The Nucleo is back in while(1) after a Standby that followed a counted
\* round; the button was not pressed since, and no hand is on the bus.
C31_Witness ==
    /\ n_pc = "idle"
    /\ ~n_tim
    /\ h_sleep # << 0, 0, 0, 0 >>
    /\ toDisc = << >>

\* C32: whenever a board enters Standby, the Nucleo on a lost light and the
\* Disc on a sleep message, its standby and wake-up flags (PWR_FLAG_SB and
\* PWR_FLAG_WU, tested and cleared together by the code) are clear, also when
\* the request comes during or right after a restart from an earlier Standby.
C32_StandbyStep ==
    /\ (n_pc' = "standby" /\ n_pc # "standby") => (~n_SBF /\ ~n_SBF')
    /\ (d_pc' = "standby" /\ d_pc # "standby") => (~d_SBF /\ ~d_SBF')

C32_FlagsClearAtStandby == [][C32_StandbyStep]_vars

\* The Disc has just woken from Standby, its flags still set, while the
\* Nucleo is already in Standby again and its sleep message waits on the bus.
C32_Witness ==
    /\ d_pc = "main_start"
    /\ d_SBF
    /\ n_pc = "standby"
    /\ ~n_SBF
    /\ toDisc # << >>
    /\ IsSleepCommand(Head(toDisc))

\* C33: a board never attempts to transmit before its own HAL_CAN_Start has
\* completed: no button, timer or light handler that calls
\* HAL_CAN_AddTxMessage runs during the start-up of main(). In the model a
\* transmit attempt before the start is the only way into "error".
C33_NoEarlyTransmit ==
    /\ n_pc # "error"
    /\ d_pc # "error"

\* C34: the Disc transmits a result only while it handles a received hand
\* (0x49F, data), and one result for every hand whose handler completes; the
\* Nucleo transmits the statistics only while it handles a received request
\* (0x633, remote), and one answer per request. No handler sends either
\* frame on its own or twice for one frame.
C34_ResultSent ==
    /\ Len(toNucleo') > Len(toNucleo)
    /\ toNucleo'[Len(toNucleo')].StdId = ID_RESULT

C34_StatsSent ==
    /\ Len(toDisc') > Len(toDisc)
    /\ toDisc'[Len(toDisc')].StdId = ID_STATS
    /\ toDisc'[Len(toDisc')].RTR = "data"

C34_HandTaken ==
    /\ d_pc = "idle"
    /\ toDisc # << >>
    /\ Head(toDisc).StdId = ID_HAND
    /\ Head(toDisc).RTR = "data"
    /\ toDisc' = Tail(toDisc)

C34_RequestTaken ==
    /\ n_pc = "idle"
    /\ toNucleo # << >>
    /\ Head(toNucleo).StdId = ID_STATS
    /\ Head(toNucleo).RTR = "remote"
    /\ toNucleo' = Tail(toNucleo)

C34_AnswerStep ==
    /\ C34_ResultSent => (C34_HandTaken /\ Len(toNucleo') = Len(toNucleo) + 1)
    /\ C34_StatsSent => (C34_RequestTaken /\ Len(toDisc') = Len(toDisc) + 1)
    /\ (C34_HandTaken /\ d_pc' = "idle") => C34_ResultSent
    /\ C34_RequestTaken => (C34_StatsSent /\ n_pc' = "idle")

C35_SleepTaken ==
    /\ d_pc = "idle"
    /\ toDisc # << >>
    /\ Head(toDisc).StdId = ID_SLEEP
    /\ Head(toDisc).RTR = "data"
    /\ toDisc' = Tail(toDisc)

C35_LightHandler ==
    /\ n_pc = "idle"
    /\ toDisc' = Append(toDisc, SleepMsg(0))
    /\ UNCHANGED << toNucleo, n_tim, ledgerVars, bkpsram >>

C35_StandbyStep ==
    /\ (d_pc' = "standby" /\ d_pc # "standby") => C35_SleepTaken
    /\ (n_pc' = "standby" /\ n_pc # "standby") => C35_LightHandler
    /\ (toNucleo # << >> /\ Head(toNucleo).StdId = ID_SLEEP
            /\ toNucleo' = Tail(toNucleo))
          => UNCHANGED << nucleoVars, toDisc >>

C35_StandbyOnlyOnItsCause == [][C35_StandbyStep]_vars

\* The Disc has gone to Standby on a sleep message while the Nucleo, which
\* has counted a result and started its timer, runs on in while(1).
C35_Witness ==
    /\ n_pc = "idle"
    /\ n_tim
    /\ toNucleo = << >>
    /\ d_pc = "standby"
    /\ h_rounds > 0

\* C36: with the two boards alone on the bus every result frame carries 1, 2
\* or 3, and game_err of the Nucleo stays 0 from a fresh start on.
C36_ClosedSystemNoError ==
    /\ \A i \in 1..Len(toNucleo) :
           toNucleo[i].StdId = ID_RESULT => FirstByte(toNucleo[i]) \in 1..3
    /\ game_err = 0

\* A round has been played to its end: the Disc shows a tie and the Nucleo
\* has counted it.
C36_Witness ==
    /\ led = TieResult
    /\ tie_count > 0
    /\ game_err = 0
    /\ h_rounds > 0

C38_FirstThreeAndIdempotent ==
    /\ stage \in {"loaded", "stored_again", "loaded_again"}
          => /\ nucleo_wins = in_score[1]
             /\ disc_wins = in_score[2]
             /\ tie_count = in_score[3]
    /\ stage \in {"loaded", "loaded_again"} => n_pc = "main_wakeup"
    /\ stage = "loaded_again" => Ledger = h_sleep

\* The second load has run over a record that is shorter than the one the
\* backup SRAM held at first, with three counters of three digits.
C38_Witness ==
    /\ stage = "loaded_again"
    /\ Ledger = << 255, 100, 255, 0 >>
    /\ in_score = << 255, 100, 255, 255 >>
    /\ bkpsram # store_score_in_bSRAM(BlankSram, 255, 100, 255, 0)

\* C39: while load_bSRAM_score parses, the index of the slot it writes stays
\* within 0..3 whatever the backup SRAM holds: no fifth or later slot of
\* stats[] is written, however many separators come before the newline.
C39_LoadStep ==
    (stage = "input" /\ stage' # "input") => ~LoadedStats(bkpsram).oob

C39_SlotIndexInRange == [][C39_LoadStep]_vars

\* C40: between two runs of the Disc's period callback debounce_cnt is in
\* 0..99: it is 0 after a released sample and after a request was sent, and
\* never 100 or more, so the uint8_t never wraps.
C40_DebounceInRange ==
    /\ debounce_cnt \in 0..(DebounceThreshold - 1)
    /\ h_streak = 0 => debounce_cnt = 0
    /\ (h_streak < MaxStreak /\ h_streak % DebounceThreshold = 0) => debounce_cnt = 0

\* The button is held: a request has gone out and the count is back at 99.
C40_Witness ==
    /\ d_pc = "idle"
    /\ h_fires >= 1
    /\ debounce_cnt = DebounceThreshold - 1
====
